---- MODULE Spec2Model ----
(***************************************************************************)
(* A model of src/src/main.rs: the arithmetic worksheet generator.          *)
(*                                                                         *)
(* The state is the OpsBuilder (operations, used), the locals of the       *)
(* generator function that is running (n, range, ops, gen_used), the lines *)
(* written to standard output (out), and the control position (pc).        *)
(*                                                                         *)
(* Random draws (rng.gen_range, rng.gen_bool) are inputs chosen with \E.   *)
(* One step of a generator is one iteration of its `while` loop; add_ops,  *)
(* shuffle and print are one step each.                                    *)
(*                                                                         *)
(* u32 values: every operand the model draws is below 2^31, so `b + 1`     *)
(* cannot overflow.  A subtraction that goes below zero either panics      *)
(* (overflow checks on, the debug profile) or wraps (overflow checks off,  *)
(* the release profile); the wrapped value 2^32 + (x - y) is held as the   *)
(* negative number x - y, which is different from every drawn operand,     *)
(* exactly as 2^32 + (x - y) is.                                           *)
(***************************************************************************)
EXTENDS Integers, Sequences, FiniteSets, TLC

VARIABLES
    caller,      \* who drives the run: "builder" (calls on an OpsBuilder),
                 \* "call" (one call of a generator) or "main"
    args,        \* the three counts main asks its generators for
    fn,          \* the generator function called last ("none" before any)
    pc,          \* the control position: "builder" (between calls on an
                 \* OpsBuilder), "loop" (at the head of fn's while loop),
                 \* "returned", "panic", and main's "shuffle", "print",
                 \* "Done", "exit"
    n,           \* the running generator's parameter n
    range,       \* the running generate_ops call's parameter range
    ops,         \* the running generator's local ops
    gen_used,    \* the running generator's local used
    operations,  \* OpsBuilder.operations
    used,        \* OpsBuilder.used
    out          \* the lines written to standard output

vars == <<caller, args, fn, pc, n, range, ops, gen_used, operations, used, out>>

---------------------------------------------------------------------------
(* Bounds of the model *)

\* largest n of a direct call of a generator
MaxN == 2
\* largest operand of the ranges handed to generate_ops
MaxHi == 4
\* largest sum of the three counts of a run of main (20 + 5 + 5 in the source)
MaxTotal == 2
\* largest number of operations an explored OpsBuilder holds
MaxHeld == 3
\* largest number of lines an explored OpsBuilder's calls of print write
MaxOut == 3
\* longest batch handed to add_ops on an explored OpsBuilder
MaxBatch == 2
\* largest n of a call of generate_sub_with_nine / generate_sub_to_nine in
\* the specification of these two generators
NineMaxN == 9

---------------------------------------------------------------------------
(* struct Operation and the OpsBuilder *)

Operation(a, b, op) == [a |-> a, b |-> b, op |-> op]

key(op) == <<op.a, op.b, op.op>>

reverse_key(op) == <<op.b, op.a, op.op>>

new == [operations |-> <<>>, used |-> {}]

\* the condition of add_ops' `if`; before it, the condition without its
\* key test, and with the reverse test made for '-' too
admits_reverse_only(registry, op) ==
    op.op = "-" \/ reverse_key(op) \notin registry
admits_reverse_always(registry, op) ==
    key(op) \notin registry /\ reverse_key(op) \notin registry
admits(registry, op) ==
    /\ key(op) \notin registry
    /\ (op.op = "-" \/ reverse_key(op) \notin registry)

\* the body of add_ops' `if`; before it, the body without its second insert
admit_key_only(self, op) ==
    [operations |-> Append(self.operations, op),
     used |-> self.used \cup {key(op)}]
admit(self, op) ==
    [operations |-> Append(self.operations, op),
     used |-> (self.used \cup {key(op)})
                \cup (IF op.op = "+" THEN {reverse_key(op)} ELSE {})]

RECURSIVE add_ops(_, _)
add_ops(self, new_ops) ==
    IF new_ops = <<>> THEN self
    ELSE add_ops(IF admits(self.used, Head(new_ops))
                 THEN admit(self, Head(new_ops))
                 ELSE self,
                 Tail(new_ops))

\* Vec::swap with the source's 0-based indices
swap(s, i, j) == [s EXCEPT ![i + 1] = s[j + 1], ![j + 1] = s[i + 1]]

\* the values rng.gen_range(0..=i) can return; before it, those of 0..i
gen_range_exclusive(i) == 0 .. (i - 1)
shuffle_gen_range(i) == 0 .. i

\* the draws of one shuffle of len operations: one j for each i of (1..len).rev()
ShuffleDraws(len) ==
    {d \in [1 .. (len - 1) -> 0 .. (len - 1)] :
        \A i \in 1 .. (len - 1) : d[i] \in shuffle_gen_range(i)}

RECURSIVE shuffle_from(_, _, _)
shuffle_from(s, i, draws) ==
    IF i < 1 THEN s ELSE shuffle_from(swap(s, i, draws[i]), i - 1, draws)

shuffle(s, draws) == shuffle_from(s, Len(s) - 1, draws)

\* `{}` of a u32: its decimal digits
Digit == <<"0", "1", "2", "3", "4", "5", "6", "7", "8", "9">>

RECURSIVE Display(_)
Display(x) ==
    IF x < 10 THEN Digit[x + 1]
    ELSE Display(x \div 10) \o Digit[(x % 10) + 1]

a_space(op) == IF op.a < 10 THEN " " ELSE ""

\* b_space; before it, b_space computed from op.a
b_space_of_a(op) == IF op.a < 10 THEN " " ELSE ""
b_space(op) == IF op.b < 10 THEN " " ELSE ""

println(op) ==
    a_space(op) \o Display(op.a) \o " " \o op.op \o " "
        \o b_space(op) \o Display(op.b) \o " ="

print(s) == [i \in 1 .. Len(s) |-> println(s[i])]

---------------------------------------------------------------------------
(* The generators *)

\* the condition of each generator's `while`
loop_continues(len, count) == len < count

\* The `if` of generate_ops: "continue" (the pair is skipped), "pass", or
\* "panic" when `b - 1` is evaluated with b = 0 under overflow checks.  `||`
\* evaluates `a == b - 1` only when the two tests before it are false.
\* Before it, the `if` without `a == b - 1`.
skip_without_predecessor(a, b, overflow_checks) ==
    IF a = b \/ a = b + 1 \/ a = 1 \/ b = 1 THEN "continue" ELSE "pass"
skip(a, b, overflow_checks) ==
    IF a = b \/ a = b + 1 THEN "continue"
    ELSE IF b < 1 /\ overflow_checks THEN "panic"
    ELSE IF a = b - 1 \/ a = 1 \/ b = 1 THEN "continue"
    ELSE "pass"

\* the `if a >= b` of generate_ops' '-' arm; before it, no test
sub_any(a, b) == TRUE
sub_allowed(a, b) == a >= b

\* the `match operation` of generate_ops, on the locals st = [ops, used]
generate_ops_match(st, a, b, operation) ==
    IF operation = "+"
    THEN IF <<a, b, "+">> \notin st.used /\ <<b, a, "+">> \notin st.used
         THEN [ops |-> Append(st.ops, Operation(a, b, "+")),
               used |-> st.used \cup {<<a, b, "+">>, <<b, a, "+">>}]
         ELSE st
    ELSE IF sub_allowed(a, b) /\ <<a, b, "-">> \notin st.used
         THEN [ops |-> Append(st.ops, Operation(a, b, "-")),
               used |-> st.used \cup {<<a, b, "-">>}]
         ELSE st

\* the `if` of generate_sub_with_nine and generate_sub_to_nine; before it,
\* the `if` without used.insert(key)
nine_push_unrecorded(st, a, b) ==
    IF <<a, b, "-">> \notin st.used
    THEN [ops |-> Append(st.ops, Operation(a, b, "-")), used |-> st.used]
    ELSE st
nine_push(st, a, b) ==
    IF <<a, b, "-">> \notin st.used
    THEN [ops |-> Append(st.ops, Operation(a, b, "-")),
          used |-> st.used \cup {<<a, b, "-">>}]
    ELSE st

\* rng.gen_range(11..=18) of generate_sub_with_nine
with_nine_range == 11 .. 18

\* rng.gen_range(11..=18) of generate_sub_to_nine
to_nine_range == 11 .. 18

Generators ==
    {"generate_ops", "generate_sub_with_nine", "generate_sub_to_nine"}

---------------------------------------------------------------------------
(* Inputs *)

\* the batches handed to add_ops on an explored OpsBuilder are built from
\* these operations
Candidates ==
    {Operation(5, 3, "+"), Operation(3, 5, "+"), Operation(12, 7, "-"),
     Operation(7, 12, "-"), Operation(8, 12, "-"), Operation(15, 7, "+")}

Batches == UNION {[1 .. len -> Candidates] : len \in 0 .. MaxBatch}

\* the ranges handed to generate_ops, the empty ones (lo > hi) included
Ranges == [lo : 0 .. MaxHi, hi : 0 .. MaxHi]

NoRange == [lo |-> 0, hi |-> 0]

NoArgs == <<0, 0, 0>>

\* main's calls: generate_ops(args[1], 1..=MaxHi), generate_sub_with_nine(args[2]),
\* generate_sub_to_nine(args[3]); the source has 20, 1..=19, 5 and 5
MainArgs ==
    {c \in (0 .. MaxTotal) \X (0 .. MaxTotal) \X (0 .. MaxTotal) :
        c[1] + c[2] + c[3] <= MaxTotal}

MainRange == [lo |-> 1, hi |-> MaxHi]

---------------------------------------------------------------------------
(* Initial states *)

InitBuilder ==
    /\ caller = "builder" /\ args = NoArgs /\ fn = "none" /\ pc = "builder"
    /\ n = 0 /\ range = NoRange /\ ops = <<>> /\ gen_used = {}
    /\ operations = new.operations /\ used = new.used /\ out = <<>>

InitGenerateOps ==
    /\ caller = "call" /\ args = NoArgs /\ fn = "generate_ops" /\ pc = "loop"
    /\ n \in 0 .. MaxN /\ range \in Ranges /\ ops = <<>> /\ gen_used = {}
    /\ operations = <<>> /\ used = {} /\ out = <<>>

InitNine(max_n) ==
    /\ caller = "call" /\ args = NoArgs
    /\ fn \in {"generate_sub_with_nine", "generate_sub_to_nine"} /\ pc = "loop"
    /\ n \in 0 .. max_n /\ range = NoRange /\ ops = <<>> /\ gen_used = {}
    /\ operations = <<>> /\ used = {} /\ out = <<>>

InitMain ==
    /\ caller = "main" /\ args \in MainArgs /\ fn = "generate_ops" /\ pc = "loop"
    /\ n = args[1] /\ range = MainRange /\ ops = <<>> /\ gen_used = {}
    /\ operations = new.operations /\ used = new.used /\ out = <<>>

Init == InitBuilder \/ InitGenerateOps \/ InitNine(MaxN) \/ InitMain

InitNineOnly == InitNine(NineMaxN)

---------------------------------------------------------------------------
(* Actions *)

\* one iteration of generate_ops' loop
GenerateOpsStep ==
    /\ fn = "generate_ops" /\ pc = "loop"
    /\ loop_continues(Len(ops), n)
    /\ range.lo <= range.hi
    /\ \E a \in range.lo .. range.hi, b \in range.lo .. range.hi,
          operation \in {"+", "-"}, overflow_checks \in BOOLEAN :
          LET verdict == skip(a, b, overflow_checks)
              st == generate_ops_match([ops |-> ops, used |-> gen_used],
                                       a, b, operation)
          IN  IF verdict = "panic"
              THEN pc' = "panic" /\ UNCHANGED <<ops, gen_used>>
              ELSE IF verdict = "continue"
              THEN UNCHANGED <<pc, ops, gen_used>>
              ELSE ops' = st.ops /\ gen_used' = st.used /\ UNCHANGED pc
    /\ UNCHANGED <<caller, args, fn, n, range, operations, used, out>>

\* rng.gen_range panics on an empty range
GenerateOpsEmptyRange ==
    /\ fn = "generate_ops" /\ pc = "loop"
    /\ loop_continues(Len(ops), n)
    /\ range.lo > range.hi
    /\ pc' = "panic"
    /\ UNCHANGED <<caller, args, fn, n, range, ops, gen_used, operations,
                   used, out>>

\* one iteration of generate_sub_with_nine's loop, drawing a
GenerateSubWithNineStep(a) ==
    /\ fn = "generate_sub_with_nine" /\ pc = "loop"
    /\ loop_continues(Len(ops), n)
    /\ LET st == nine_push([ops |-> ops, used |-> gen_used], a, 9)
       IN  ops' = st.ops /\ gen_used' = st.used
    /\ UNCHANGED <<caller, args, fn, pc, n, range, operations, used, out>>

\* one iteration of generate_sub_to_nine's loop, drawing a
GenerateSubToNineStep(a) ==
    /\ fn = "generate_sub_to_nine" /\ pc = "loop"
    /\ loop_continues(Len(ops), n)
    /\ \E overflow_checks \in BOOLEAN :
          IF a < 9 /\ overflow_checks
          THEN pc' = "panic" /\ UNCHANGED <<ops, gen_used>>
          ELSE LET st == nine_push([ops |-> ops, used |-> gen_used], a, a - 9)
               IN  ops' = st.ops /\ gen_used' = st.used /\ UNCHANGED pc
    /\ UNCHANGED <<caller, args, fn, n, range, operations, used, out>>

\* a directly called generator leaves its loop and returns ops
Return ==
    /\ caller = "call" /\ pc = "loop"
    /\ ~loop_continues(Len(ops), n)
    /\ pc' = "returned"
    /\ UNCHANGED <<caller, args, fn, n, range, ops, gen_used, operations,
                   used, out>>

\* main: the generator returns, add_ops merges its list, and the next
\* argument of the chain is evaluated
MainAddOps ==
    /\ caller = "main" /\ pc = "loop"
    /\ ~loop_continues(Len(ops), n)
    /\ LET self == add_ops([operations |-> operations, used |-> used], ops)
       IN  operations' = self.operations /\ used' = self.used
    /\ ops' = <<>> /\ gen_used' = {}
    /\ IF fn = "generate_ops"
       THEN fn' = "generate_sub_with_nine" /\ n' = args[2] /\ pc' = "loop"
       ELSE IF fn = "generate_sub_with_nine"
       THEN fn' = "generate_sub_to_nine" /\ n' = args[3] /\ pc' = "loop"
       ELSE fn' = fn /\ n' = n /\ pc' = "shuffle"
    /\ UNCHANGED <<caller, args, range, out>>

\* add_ops on an explored OpsBuilder, with any batch
AddOps ==
    /\ caller = "builder" /\ pc = "builder"
    /\ \E new_ops \in Batches :
          /\ Len(operations) + Len(new_ops) <= MaxHeld
          /\ LET self == add_ops([operations |-> operations, used |-> used],
                                 new_ops)
             IN  operations' = self.operations /\ used' = self.used
    /\ UNCHANGED <<caller, args, fn, pc, n, range, ops, gen_used, out>>

Shuffle ==
    /\ pc \in {"builder", "shuffle"}
    /\ \E draws \in ShuffleDraws(Len(operations)) :
          operations' = shuffle(operations, draws)
    /\ pc' = IF pc = "shuffle" THEN "print" ELSE pc
    /\ UNCHANGED <<caller, args, fn, n, range, ops, gen_used, used, out>>

PrintLines ==
    /\ pc \in {"builder", "print"}
    /\ pc = "builder" => Len(out) + Len(operations) <= MaxOut
    /\ out' = out \o print(operations)
    /\ pc' = IF pc = "print" THEN "Done" ELSE pc
    /\ UNCHANGED <<caller, args, fn, n, range, ops, gen_used, operations,
                   used>>

\* main's println!("Done")
Done ==
    /\ caller = "main" /\ pc = "Done"
    /\ out' = Append(out, "Done")
    /\ pc' = "exit"
    /\ UNCHANGED <<caller, args, fn, n, range, ops, gen_used, operations,
                   used>>

Next ==
    \/ GenerateOpsStep
    \/ GenerateOpsEmptyRange
    \/ \E a \in with_nine_range : GenerateSubWithNineStep(a)
    \/ \E a \in to_nine_range : GenerateSubToNineStep(a)
    \/ Return
    \/ MainAddOps
    \/ AddOps
    \/ Shuffle
    \/ PrintLines
    \/ Done

Spec == Init /\ [][Next]_vars

\* the two "nine" generators alone, called with every n up to NineMaxN
NextNine ==
    \/ \E a \in with_nine_range : GenerateSubWithNineStep(a)
    \/ \E a \in to_nine_range : GenerateSubToNineStep(a)
    \/ Return

\* Fairness of the draws: a uniform rng keeps drawing every value, and the
\* loop's exit is taken once its condition is false.
FairSpecNine ==
    /\ InitNineOnly /\ [][NextNine]_vars
    /\ WF_vars(Return)
    /\ \A a \in with_nine_range : WF_vars(GenerateSubWithNineStep(a))
    /\ \A a \in to_nine_range : WF_vars(GenerateSubToNineStep(a))

---------------------------------------------------------------------------
(* Properties *)

\* the operations of a sequence
Held(s) == {s[i] : i \in 1 .. Len(s)}

\* no two operations of s share a key, and no two '+' operations of s are
\* the swapped forms of each other
NoDuplicates(s) ==
    \A i, j \in 1 .. Len(s) :
        i # j =>
            /\ key(s[i]) # key(s[j])
            /\ (s[i].op = "+" /\ s[j].op = "+") => key(s[i]) # reverse_key(s[j])

\* C1: when main has printed `Done`, the number of problem lines before it
\* equals the sum of the three requested counts.
C1_LineCount ==
    (caller = "main" /\ pc = "exit") =>
        Len(out) - 1 = args[1] + args[2] + args[3]

C3_NineEnds ==
    (fn = "generate_sub_with_nine" /\ n = 9) ~> (pc # "loop")

\* C4: every problem of generate_ops' list has a # b, a and b not differing by
\* exactly 1, a # 1 and b # 1, for every n and every range, the ranges that
\* start at 0 included.
C4_Exclusion ==
    fn = "generate_ops" =>
        \A op \in Held(ops) :
            /\ op.a # op.b
            /\ op.a - op.b # 1
            /\ op.b - op.a # 1
            /\ op.a # 1
            /\ op.b # 1

\* generate_ops returned from a range starting at 0 with a problem whose b
\* is 0: its `a == b - 1` was computed with b = 0, without overflow checks
C4_Witness ==
    /\ fn = "generate_ops" /\ pc = "returned"
    /\ range.lo = 0
    /\ Len(ops) = 2
    /\ \E op \in Held(ops) : op.b = 0

\* C5: every '-' problem of a generator's list, and every '-' problem the
\* builder holds in a run of main, has a >= b; generate_sub_to_nine never
\* panics and its b = a - 9 is never a wrapped value.
C5_NonNegative ==
    /\ \A op \in Held(ops) : op.op = "-" => op.a >= op.b
    /\ caller = "main" => \A op \in Held(operations) : op.op = "-" => op.a >= op.b
    /\ fn = "generate_sub_to_nine" =>
           /\ pc # "panic"
           /\ \A op \in Held(ops) : op.b >= 0 /\ op.a - op.b = 9

\* main has finished holding a '-' problem of generate_ops and one of
\* generate_sub_to_nine
C5_Witness ==
    /\ caller = "main" /\ pc = "exit"
    /\ \E op \in Held(operations) : op.op = "-" /\ op.a < 10
    /\ \E op \in Held(operations) : op.op = "-" /\ op.a - op.b = 9

\* C6: in every state of an OpsBuilder, add_ops with one candidate admits a
\* '-' candidate iff its key is not registered, and then registers that key
\* only; admits a '+' candidate iff neither its key nor its swapped key is
\* registered, and then registers both; and changes nothing otherwise.
C6_Filter ==
    \A c \in Candidates :
        LET self == [operations |-> operations, used |-> used]
            after == add_ops(self, <<c>>)
            admitted ==
                IF c.op = "-" THEN key(c) \notin used
                ELSE key(c) \notin used /\ reverse_key(c) \notin used
        IN  IF admitted
            THEN /\ after.operations = Append(operations, c)
                 /\ after.used =
                        IF c.op = "-" THEN used \cup {key(c)}
                        ELSE used \cup {key(c), reverse_key(c)}
            ELSE after = self

\* 5 + 3 was admitted and 3 + 5 was not; 12 - 7 and 7 - 12 were both admitted
C6_Witness ==
    /\ caller = "builder"
    /\ Held(operations) =
           {Operation(5, 3, "+"), Operation(12, 7, "-"), Operation(7, 12, "-")}
    /\ <<3, 5, "+">> \in used

RECURSIVE Factorial(_)
Factorial(k) == IF k <= 1 THEN 1 ELSE k * Factorial(k - 1)

\* C7: shuffle of the k held operations keeps exactly these operations, and
\* the k! sequences of draws produce k! different orders: every order is
\* produced, each by exactly one sequence of draws.
C7_Shuffle ==
    LET k == Len(operations)
        draws == ShuffleDraws(k)
        orders == {shuffle(operations, d) : d \in draws}
    IN  /\ \A s \in orders : Len(s) = k /\ Held(s) = Held(operations)
        /\ Cardinality(draws) = Factorial(k)
        /\ Cardinality(orders) = Factorial(k)

\* main's shuffle moved a problem of generate_sub_with_nine in front of the
\* problem of generate_ops merged before it
C7_Witness ==
    /\ caller = "main" /\ pc = "print"
    /\ args = <<1, 1, 0>>
    /\ Len(operations) = 2
    /\ operations[1].b = 9

\* an operand in a field two characters wide, right-aligned
TwoWide ==
    <<" 0", " 1", " 2", " 3", " 4", " 5", " 6", " 7", " 8", " 9",
      "10", "11", "12", "13", "14", "15", "16", "17", "18", "19">>

Line(op) == TwoWide[op.a + 1] \o " " \o op.op \o " " \o TwoWide[op.b + 1] \o " ="

\* C8: a call of print appends one line per held operation, in the order of
\* the collection, each `<a> <op> <b> =` with one leading space for an operand
\* below 10 and none for an operand of 10 or more: (8, 12, '-') is written
\* " 8 - 12 =" and (15, 7, '+') is written "15 +  7 =".
C8_Format ==
    [][(out' # out /\ pc # "Done") =>
        /\ Len(out') = Len(out) + Len(operations)
        /\ \A i \in 1 .. Len(out) : out'[i] = out[i]
        /\ \A i \in 1 .. Len(operations) :
              /\ out'[Len(out) + i] = Line(operations[i])
              /\ operations[i] = Operation(8, 12, "-")
                    => out'[Len(out) + i] = " 8 - 12 ="
              /\ operations[i] = Operation(15, 7, "+")
                    => out'[Len(out) + i] = "15 +  7 ="]_vars

\* print wrote 8 - 12 and then 15 + 7
C8_Witness ==
    \E i \in 1 .. (Len(out) - 1) :
        out[i] = " 8 - 12 =" /\ out[i + 1] = "15 +  7 ="

\* C9: for n from 0 to 8, a call of generate_sub_with_nine(n) or
\* generate_sub_to_nine(n) returns, and its list has exactly n problems with
\* pairwise different a.
C9_NineReturns ==
    /\ (n \in 0 .. 8) => <>(pc = "returned")
    /\ []((n \in 0 .. 8 /\ pc = "returned") =>
            /\ Len(ops) = n
            /\ \A i, j \in 1 .. Len(ops) : i # j => ops[i].a # ops[j].a)

\* generate_sub_to_nine(8) returned all eight problems
C9_Witness ==
    /\ fn = "generate_sub_to_nine" /\ pc = "returned"
    /\ n = 8 /\ Len(ops) = 8

\* the keys of the held operations and the swapped keys of the held '+' ones
Registry(s) ==
    {key(op) : op \in Held(s)}
        \cup {reverse_key(op) : op \in {o \in Held(s) : o.op = "+"}}

\* C10: `used` is exactly the keys of the held operations together with the
\* swapped keys of the held '+' operations; no step removes a key or an
\* operation; a step that writes lines or keeps the number of operations
\* (print, shuffle) leaves `used` unchanged.
C10_Registry ==
    /\ [](used = Registry(operations))
    /\ [][/\ used \subseteq used'
          /\ Held(operations) \subseteq Held(operations')
          /\ (out' # out \/ Len(operations') = Len(operations)) => used' = used]_vars

\* an OpsBuilder holding a '+' and a '-' operation after add_ops, with lines
\* printed
C10_Witness ==
    /\ caller = "builder"
    /\ out # <<>>
    /\ Len(operations) = 3
    /\ \E op \in Held(operations) : op.op = "+"
    /\ \E op \in Held(operations) : op.op = "-"

====
